---- MODULE Spec2Model ----
(***************************************************************************)
(* CarPriceML: the training job (pipeline/train.py), the prediction        *)
(* service (app/api/main.py) and the client form (app/frontend/            *)
(* streamlit_app.py), which communicate through two files of the models/   *)
(* directory: the serialized pipeline and the metadata document.           *)
(***************************************************************************)
EXTENDS Integers, Sequences, FiniteSets, TLC

VARIABLES
    models_dir,      \* whether the models/ directory exists
    model_file,      \* models/rf_model.joblib
    meta_file,       \* models/metadata.json
    train,           \* the training process: its position, arguments and locals
    req,             \* the request being handled: its position and locals
    stable,          \* history: no artifact write since the current request began
    store_at_start,  \* history: the artifact store when the current training run began
    ui               \* the client form: metadata read, widget selections, payload

vars == <<models_dir, model_file, meta_file, train, req, stable, store_at_start, ui>>

store == <<models_dir, model_file, meta_file>>

-----------------------------------------------------------------------------
(* Bounds of the model *)

\* training runs in one behaviour
MaxRuns == 2

\* options of one widget the user picks among, besides the first
MaxChoice == 2

-----------------------------------------------------------------------------
(* Scalars of a feature request: JSON null, a number, a string.  A string  *)
(* is a text: a sequence of pieces, each one character or a run of text    *)
(* that holds no blank at either end.                                      *)

Null == [t |-> "null", n |-> 0, s |-> <<>>]

Num(x) == [t |-> "num", n |-> x, s |-> <<>>]

Str(x) == [t |-> "str", n |-> 0, s |-> x]

\* Sequence helpers
Range(q) == {q[i] : i \in DOMAIN q}

RECURSIVE SumSeq(_)
SumSeq(q) == IF q = <<>> THEN 0 ELSE Head(q) + SumSeq(Tail(q))

-----------------------------------------------------------------------------
(* The CSV given to the training job: whether the path exists and, per     *)
(* column, the name and the dtype pandas reads it with.                    *)

Column(name, dtype) == [name |-> name, dtype |-> dtype]

CsvMissing == [exists |-> FALSE, columns |-> <<>>]

CsvCars == [exists |-> TRUE, columns |->
    <<Column("year", "int64"), Column("fuel", "object"), Column("price", "float64")>>]

CsvYearText == [exists |-> TRUE, columns |->
    <<Column("fuel", "object"), Column("year", "object"), Column("price", "float64")>>]

CsvWithBool == [exists |-> TRUE, columns |->
    <<Column("is_new", "bool"), Column("year", "int64"), Column("price", "int64")>>]

CsvOnlyBool == [exists |-> TRUE, columns |->
    <<Column("is_new", "bool"), Column("price", "float64")>>]

CsvNoPrice == [exists |-> TRUE, columns |->
    <<Column("year", "int64"), Column("fuel", "object")>>]

CsvTextPrice == [exists |-> TRUE, columns |->
    <<Column("year", "int64"), Column("price", "object")>>]

CsvFiles == {CsvMissing, CsvCars, CsvYearText, CsvWithBool, CsvOnlyBool,
             CsvNoPrice, CsvTextPrice}

Targets == {"price"}

column_names(df) == [i \in DOMAIN df.columns |-> df.columns[i].name]

has_column(df, c) == \E col \in Range(df.columns) : col.name = c

dtype_of(df, c) == (CHOOSE col \in Range(df.columns) : col.name = c).dtype

\* df.drop(columns=[target])
drop_column(df, target) ==
    [df EXCEPT !.columns = SelectSeq(df.columns, LAMBDA col : col.name # target)]

\* np.issubdtype(dtype, np.number): the integer and floating dtypes, not bool
is_number_dtype(dtype) == dtype \in {"int64", "float64"}

detect_feature_types(df, target) ==
    LET feature_df == drop_column(df, target)
    IN  [numeric_cols |-> column_names(
             [feature_df EXCEPT !.columns =
                 SelectSeq(feature_df.columns, LAMBDA col : is_number_dtype(col.dtype))]),
         categorical_cols |-> column_names(
             [feature_df EXCEPT !.columns =
                 SelectSeq(feature_df.columns, LAMBDA col : col.dtype = "object")])]

-----------------------------------------------------------------------------
(* The fitted pipeline and the metadata document.  run is the training run *)
(* that produced the object: it stands for the data-dependent content      *)
(* (fitted statistics and trees, metrics, row counts).                     *)

NoPipeline == [run |-> 0, numeric_cols |-> <<>>, categorical_cols |-> <<>>]

NoMeta == [run |-> 0, target |-> "", numeric_features |-> <<>>, categorical_features |-> <<>>]

build_pipeline(run, numeric_cols, categorical_cols) ==
    [run |-> run, numeric_cols |-> numeric_cols, categorical_cols |-> categorical_cols]

\* RandomForestRegressor.fit refuses a matrix with no column
fit_raises(pipeline) ==
    Len(pipeline.numeric_cols) + Len(pipeline.categorical_cols) = 0

metadata_of(run, target, types) ==
    [run |-> run, target |-> target,
     numeric_features |-> types.numeric_cols,
     categorical_features |-> types.categorical_cols]

-----------------------------------------------------------------------------
(* Files: absent, opened for writing and not yet complete, or complete     *)

AbsentModel == [state |-> "absent", body |-> NoPipeline]

AbsentMeta == [state |-> "absent", body |-> NoMeta]

PartialModel == [state |-> "partial", body |-> NoPipeline]

PartialMeta == [state |-> "partial", body |-> NoMeta]

-----------------------------------------------------------------------------
(* The training job, pipeline/train.py main()                              *)

\* an exception: its class and the parts of its message
Error(kind, msg) == [kind |-> kind, msg |-> msg]

NoError == Error("", <<>>)

TrainIdle == [pc |-> "idle", csv |-> CsvMissing, target |-> "", run |-> 0,
              types |-> [numeric_cols |-> <<>>, categorical_cols |-> <<>>],
              pipeline |-> NoPipeline, error |-> NoError, exit_code |-> 0]

\* lines 59-66: the two checks made before anything else
main_validate_no_target_check(csv, target) ==
    IF ~csv.exists THEN Error("FileNotFoundError", <<"CSV not found: ", "csv_path">>)
    ELSE NoError

main_validate(csv, target) ==
    IF ~csv.exists THEN Error("FileNotFoundError", <<"CSV not found: ", "csv_path">>)
    ELSE IF ~has_column(csv, target)
         THEN Error("ValueError", <<"Target column ", target, " not in CSV columns: ">>
                                      \o column_names(csv))
         ELSE NoError

\* a new invocation of the script with its arguments
TrainStart(csv, target) ==
    /\ train.pc \in {"idle", "done", "failed"}
    /\ train.run < MaxRuns
    /\ train' = [TrainIdle EXCEPT !.pc = "start", !.csv = csv, !.target = target,
                                  !.run = train.run + 1]
    /\ store_at_start' = store
    /\ UNCHANGED <<models_dir, model_file, meta_file, req, stable, ui>>

\* lines 59-66
TrainReadCsv ==
    /\ train.pc = "start"
    /\ LET e == main_validate(train.csv, train.target)
       IN  train' = IF e # NoError
                    THEN [train EXCEPT !.pc = "failed", !.error = e, !.exit_code = 1]
                    ELSE [train EXCEPT !.pc = "validated"]
    /\ UNCHANGED <<models_dir, model_file, meta_file, req, stable, store_at_start, ui>>

\* lines 68-93: cleaning, target conversion, type detection, split, fit, evaluation
TrainFit ==
    /\ train.pc = "validated"
    /\ LET types == detect_feature_types(train.csv, train.target)
           pipeline == build_pipeline(train.run, types.numeric_cols, types.categorical_cols)
       IN  train' =
             IF ~has_column(train.csv, train.target)
             THEN \* line 70, dropna(subset=[target]) on a frame without the column
                  [train EXCEPT !.pc = "failed", !.exit_code = 1,
                                !.error = Error("KeyError", <<train.target>>)]
             ELSE IF dtype_of(train.csv, train.target) = "object"
             THEN \* line 73, astype(float) on a column of text
                  [train EXCEPT !.pc = "failed", !.exit_code = 1,
                                !.error = Error("ValueError",
                                                <<"could not convert string to float">>)]
             ELSE IF fit_raises(pipeline)
             THEN \* line 85
                  [train EXCEPT !.pc = "failed", !.exit_code = 1, !.types = types,
                                !.error = Error("ValueError",
                                                <<"at least one feature is required">>)]
             ELSE [train EXCEPT !.pc = "fitted", !.types = types, !.pipeline = pipeline]
    /\ UNCHANGED <<models_dir, model_file, meta_file, req, stable, store_at_start, ui>>

\* line 97
TrainMkdir ==
    /\ train.pc = "fitted"
    /\ models_dir' = TRUE
    /\ train' = [train EXCEPT !.pc = "dir_made"]
    /\ stable' = IF models_dir THEN stable ELSE FALSE
    /\ UNCHANGED <<model_file, meta_file, req, store_at_start, ui>>

\* line 98, joblib.dump opening the file for writing: the old content is gone
TrainOpenModel ==
    /\ train.pc = "dir_made"
    /\ model_file' = PartialModel
    /\ train' = [train EXCEPT !.pc = "model_open"]
    /\ stable' = FALSE
    /\ UNCHANGED <<models_dir, meta_file, req, store_at_start, ui>>

\* line 98, joblib.dump done
TrainCloseModel ==
    /\ train.pc = "model_open"
    /\ model_file' = [state |-> "complete", body |-> train.pipeline]
    /\ train' = [train EXCEPT !.pc = "model_saved"]
    /\ stable' = FALSE
    /\ UNCHANGED <<models_dir, meta_file, req, store_at_start, ui>>

\* lines 110-112: the directory exists by now, open('w') truncates the metadata file
TrainOpenMeta ==
    /\ train.pc = "model_saved"
    /\ meta_file' = PartialMeta
    /\ train' = [train EXCEPT !.pc = "meta_open"]
    /\ stable' = FALSE
    /\ UNCHANGED <<models_dir, model_file, req, store_at_start, ui>>

\* lines 113-116: json.dump, close, the two prints, exit 0
TrainCloseMeta ==
    /\ train.pc = "meta_open"
    /\ meta_file' = [state |-> "complete",
                     body |-> metadata_of(train.run, train.target, train.types)]
    /\ train' = [train EXCEPT !.pc = "done"]
    /\ stable' = FALSE
    /\ UNCHANGED <<models_dir, model_file, req, store_at_start, ui>>

-----------------------------------------------------------------------------
(* Feature requests: the parsed JSON object, a dict in insertion order     *)

\* the keys a request may hold: each is declared by some metadata and not by others
ReqKeys == {"year", "fuel"}

\* "abc" is a string that float() refuses
ReqVals == {Null, Num(2015), Str(<<"abc">>)}

Item(key, val) == [key |-> key, val |-> val]

\* every dict over ReqKeys, in every key order
RequestBodies ==
    UNION {{[i \in 1..n |-> Item(ks[i], vs[i])] :
               ks \in {k \in [1..n -> ReqKeys] : \A i, j \in 1..n : i # j => k[i] # k[j]},
               vs \in [1..n -> ReqVals]} :
           n \in 0..Cardinality(ReqKeys)}

\* features.get(col, None)
dict_get(d, col) ==
    IF \E k \in DOMAIN d : d[k].key = col
    THEN d[CHOOSE k \in DOMAIN d : d[k].key = col].val
    ELSE Null

\* the keys of a dict comprehension over cols: a repeated name keeps its first place
RECURSIVE dict_keys(_)
dict_keys(cols) ==
    IF cols = <<>> THEN <<>>
    ELSE LET front == dict_keys(SubSeq(cols, 1, Len(cols) - 1))
             last == cols[Len(cols)]
         IN  IF last \in Range(front) THEN front ELSE Append(front, last)

-----------------------------------------------------------------------------
(* The pipeline's predict, as build_pipeline configures it                 *)

\* statistics learnt by the imputers and the encoder, standing for the data
Median == 2000

MostFrequentCode == 1

UnknownCode == 0

Raised(cause) == [raised |-> TRUE, cause |-> cause, value |-> 0]

Returned(value) == [raised |-> FALSE, cause |-> "", value |-> value]

\* numeric branch without its imputer: a missing value reaches the scaler and the forest
numeric_transformer_no_imputer(v) ==
    IF v.t = "num" THEN Returned(v.n)
    ELSE Raised("Input contains NaN or a value that is not a number")

\* SimpleImputer(median) then StandardScaler: the value is cast to float, null is imputed
numeric_transformer(v) ==
    IF v.t = "null" THEN Returned(Median)
    ELSE IF v.t = "num" THEN Returned(v.n)
    ELSE Raised("Cannot use median strategy with non-numeric data")

\* SimpleImputer(most_frequent) then OneHotEncoder(handle_unknown='ignore'): null is
\* imputed; the values of ReqVals are categories the encoder has not seen
categorical_transformer(v) ==
    IF v.t = "null" THEN Returned(MostFrequentCode) ELSE Returned(UnknownCode)

row_columns(X) == [i \in DOMAIN X |-> X[i].col]

row_value(X, c) == X[CHOOSE i \in DOMAIN X : X[i].col = c].val

\* Pipeline.predict(X)[0]: the ColumnTransformer picks its columns by name and asks
\* only for the columns its transformers use (remainder='drop')
pipeline_predict(model, X) ==
    LET used == model.numeric_cols \o model.categorical_cols
        nums == [i \in DOMAIN model.numeric_cols |->
                    numeric_transformer(row_value(X, model.numeric_cols[i]))]
        cats == [i \in DOMAIN model.categorical_cols |->
                    categorical_transformer(row_value(X, model.categorical_cols[i]))]
    IN  IF Range(used) \ Range(row_columns(X)) # {}
        THEN Raised("columns are missing")
        ELSE IF \E i \in DOMAIN nums : nums[i].raised
        THEN Raised(nums[CHOOSE i \in DOMAIN nums : nums[i].raised].cause)
        ELSE Returned(10000 * model.run
                      + SumSeq([i \in DOMAIN nums |-> nums[i].value])
                      + SumSeq([i \in DOMAIN cats |-> i * cats[i].value]))

-----------------------------------------------------------------------------
(* The prediction service, app/api/main.py                                 *)

NoResponse == [code |-> 0, body |-> [none |-> TRUE]]

ReqIdle == [pc |-> "idle", endpoint |-> "", features |-> <<>>,
            model |-> NoPipeline, meta |-> NoMeta, X |-> <<>>, resp |-> NoResponse]

NotFoundMessage == <<"Model or metadata not found. Please train the model first.">>

\* health without its try/except: the exception reaches the framework
health_error_propagates(detail) == [code |-> 500, body |-> [detail |-> detail]]

\* health's except branch, line 89
health_error(detail) == [code |-> 200, body |-> [status |-> "error", detail |-> detail]]

\* predict's first except branch answering with the client-error status
predict_load_error_as_400(detail) == [code |-> 400, body |-> [detail |-> detail]]

\* predict's first except branch, line 115
predict_load_error(detail) == [code |-> 500, body |-> [detail |-> detail]]

\* what a failure of load_artifacts becomes, per endpoint
load_error(endpoint, detail) ==
    IF endpoint = "health" THEN health_error(detail) ELSE predict_load_error(detail)

\* a handler that keeps the artifacts of the previous call instead of reading them again
ReqStart_cached(endpoint, features) ==
    /\ req.pc \in {"idle", "responded"}
    /\ req' = IF req.model # NoPipeline /\ req.meta # NoMeta
              THEN [req EXCEPT !.pc = "loaded", !.endpoint = endpoint,
                               !.features = features, !.X = <<>>, !.resp = NoResponse]
              ELSE [ReqIdle EXCEPT !.pc = "load", !.endpoint = endpoint,
                                   !.features = features]
    /\ stable' = TRUE
    /\ UNCHANGED <<models_dir, model_file, meta_file, train, store_at_start, ui>>

\* the frame of a new call of a handler
request_frame(endpoint, features) ==
    [ReqIdle EXCEPT !.pc = "load", !.endpoint = endpoint, !.features = features]

\* a request arrives
ReqStart(endpoint, features) ==
    /\ req.pc \in {"idle", "responded"}
    /\ req' = request_frame(endpoint, features)
    /\ stable' = TRUE
    /\ UNCHANGED <<models_dir, model_file, meta_file, train, store_at_start, ui>>

\* line 61-62.  The two exists() calls are one step: files are never removed, so the
\* outcome is that of evaluating both when the second is evaluated.
LoadExists ==
    /\ req.pc = "load"
    /\ req' = IF model_file.state = "absent" \/ meta_file.state = "absent"
              THEN [req EXCEPT !.pc = "responded",
                               !.resp = load_error(req.endpoint, NotFoundMessage)]
              ELSE [req EXCEPT !.pc = "read_model"]
    /\ UNCHANGED <<models_dir, model_file, meta_file, train, stable, store_at_start, ui>>

\* line 65: joblib.load raises on a file that is not a whole pickle
LoadModel ==
    /\ req.pc = "read_model"
    /\ req' = IF model_file.state = "complete"
              THEN [req EXCEPT !.pc = "read_meta", !.model = model_file.body]
              ELSE [req EXCEPT !.pc = "responded",
                               !.resp = load_error(req.endpoint, <<"Ran out of input">>)]
    /\ UNCHANGED <<models_dir, model_file, meta_file, train, stable, store_at_start, ui>>

\* a loader that removes a metadata file it cannot parse
LoadMeta_removes_cut_file ==
    /\ req.pc = "read_meta"
    /\ req' = IF meta_file.state = "complete"
              THEN [req EXCEPT !.pc = "loaded", !.meta = meta_file.body]
              ELSE [req EXCEPT !.pc = "responded",
                               !.resp = load_error(req.endpoint, <<"Expecting value">>)]
    /\ meta_file' = IF meta_file.state = "complete" THEN meta_file ELSE AbsentMeta
    /\ UNCHANGED <<models_dir, model_file, train, stable, store_at_start, ui>>

\* lines 68-71: json.load raises on an empty or cut document
LoadMeta ==
    /\ req.pc = "read_meta"
    /\ req' = IF meta_file.state = "complete"
              THEN [req EXCEPT !.pc = "loaded", !.meta = meta_file.body]
              ELSE [req EXCEPT !.pc = "responded",
                               !.resp = load_error(req.endpoint, <<"Expecting value">>)]
    /\ UNCHANGED <<models_dir, model_file, meta_file, train, stable, store_at_start, ui>>

\* line 86
HealthRespond ==
    /\ req.pc = "loaded"
    /\ req.endpoint = "health"
    /\ req' = [req EXCEPT !.pc = "responded",
                 !.resp = [code |-> 200,
                           body |-> [status |-> "ok", model |-> "rf",
                                     features |-> req.meta.numeric_features
                                                  \o req.meta.categorical_features]]]
    /\ UNCHANGED <<models_dir, model_file, meta_file, train, stable, store_at_start, ui>>

\* the frame made of the request itself, pd.DataFrame([features])
build_row_from_request(meta, features) ==
    [i \in DOMAIN features |-> [col |-> features[i].key, val |-> features[i].val]]

\* lines 118-125: the row as a one-row frame, a sequence of (column, value)
build_row(meta, features) ==
    LET expected_cols == dict_keys(meta.numeric_features \o meta.categorical_features)
    IN  [i \in DOMAIN expected_cols |->
            [col |-> expected_cols[i], val |-> dict_get(features, expected_cols[i])]]

\* lines 117-135
PredictRespond ==
    /\ req.pc = "loaded"
    /\ req.endpoint = "predict"
    /\ LET X == build_row(req.meta, req.features)
           pred == pipeline_predict(req.model, X)
       IN  req' = [req EXCEPT !.pc = "responded", !.X = X,
                     !.resp = IF pred.raised
                              THEN [code |-> 400,
                                    body |-> [detail |-> <<"Prediction failed: ", pred.cause>>]]
                              ELSE [code |-> 200, body |-> [price |-> pred.value]]]
    /\ UNCHANGED <<models_dir, model_file, meta_file, train, stable, store_at_start, ui>>

-----------------------------------------------------------------------------
(* The client form, app/frontend/streamlit_app.py: the option lists        *)

CATEGORICAL_OPTIONS_company == <<
    "Maruti", "Hyundai", "Honda", "Toyota", "Ford", "Skoda", "Renault", "Mahindra",
    "Tata", "Volkswagen", "BMW", "Mercedes-Benz", "Audi", "Jeep", "Nissan", "Datsun",
    "Chevrolet", "Fiat", "MG", "Volvo", "Lexus", "Jaguar", "Land Rover", "Daewoo">>

CATEGORICAL_OPTIONS_fuel == <<
    "Petrol", "Diesel", "CNG", "LPG", "Electric">>

CATEGORICAL_OPTIONS_transmission == <<
    "Manual", "Automatic">>

CATEGORICAL_OPTIONS_owner == <<
    "First", "Second", "Third", "Fourth & Above">>

CATEGORICAL_OPTIONS_seller_type == <<
    "Individual", "Dealer", "Trustmark Dealer">>

COMMON_MODELS == <<
    "Swift", "City", "i20", "Alto", "Wagon", "Baleno", "Creta", "Verna", "Fortuner",
    "Innova", "Corolla", "Etios", "Rapid", "Duster", "Figo", "EcoSport", "X1", "A6",
    "Q5", "C-Class", "E-Class", "S-Class">>

COMMON_EDITIONS == <<
    "VDI", "VXI", "ZXI", "LXI", "Asta", "Sportz", "Magna", "SX", "VX", "ZX", "Delta",
    "Zeta", "Alpha", "Highline", "Comfortline", "Trendline", "Elegance", "Ambition",
    "Plus", "Option">>

YEAR_OPTIONS == [i \in 1..26 |-> 1999 + i]

KM_DRIVEN_OPTIONS == <<
    0, 5000, 10000, 15000, 20000, 25000, 30000, 40000, 50000, 60000, 70000, 80000,
    90000, 100000, 120000, 140000, 150000, 170000, 200000>>

ENGINE_CC_OPTIONS == <<
    796, 998, 1061, 1086, 1197, 1198, 1199, 1248, 1298, 1364, 1396, 1399, 1461, 1462,
    1497, 1498, 1591, 1598, 1797, 1798, 1968, 1995, 1998, 1999, 2143, 2179, 2362, 2477,
    2494, 2755, 2982, 2987, 3604>>

POWER_BHP_OPTIONS == <<
    34, 37, 40, 46, 47, 53, 57, 60, 64, 67, 68, 73, 74, 75, 78, 81, 82, 83, 86, 88, 90,
    93, 98, 100, 103, 108, 116, 117, 120, 121, 126, 138, 141, 147, 155, 160, 168, 170,
    171, 174, 177, 183, 187, 188, 189, 190, 214, 241, 254, 280, 400>>

TORQUE_NM_OPTIONS == <<
    59, 60, 62, 69, 71, 76, 78, 84, 90, 91, 95, 96, 99, 104, 110, 112, 113, 114, 115,
    124, 130, 138, 145, 146, 151, 153, 160, 170, 173, 177, 190, 200, 205, 213, 219,
    224, 248, 250, 259, 260, 280, 290, 300, 320, 343, 347, 360, 380, 382, 400, 430,
    490, 500, 550, 620, 640>>

MILEAGE_MPG_OPTIONS == <<
    22, 26, 28, 30, 32, 33, 34, 35, 36, 37, 38, 39, 40, 41, 42, 43, 44, 45, 46, 47, 48,
    49, 50, 51, 52, 53, 54, 55, 56, 57, 58, 59, 61, 62, 64, 66, 98>>

SEATS_OPTIONS == <<
    4, 5, 6, 7, 8>>

Placeholder == <<"Sélectionner...">>

\* what the user may have typed in the free text field
TextEntries == << <<>>, <<"Maruti Swift Dzire VDI">>, <<" ", " ", " ">> >>

-----------------------------------------------------------------------------
(* Text formatting and parsing used by the form                            *)

DigitChars == <<"0", "1", "2", "3", "4", "5", "6", "7", "8", "9">>

\* str(n), n >= 0
RECURSIVE str_int(_)
str_int(n) ==
    IF n < 10 THEN <<DigitChars[n + 1]>>
    ELSE str_int(n \div 10) \o <<DigitChars[(n % 10) + 1]>>

\* f"{n:,}", n >= 0
RECURSIVE format_thousands(_)
format_thousands(n) ==
    IF n < 1000 THEN str_int(n)
    ELSE format_thousands(n \div 1000) \o <<",">>
         \o <<DigitChars[((n % 1000) \div 100) + 1],
              DigitChars[((n % 100) \div 10) + 1],
              DigitChars[(n % 10) + 1]>>

\* s.replace(old, new)
RECURSIVE str_replace(_, _, _)
str_replace(text, old, new) ==
    IF Len(text) < Len(old) \/ old = <<>> THEN text
    ELSE IF SubSeq(text, 1, Len(old)) = old
         THEN new \o str_replace(SubSeq(text, Len(old) + 1, Len(text)), old, new)
         ELSE <<Head(text)>> \o str_replace(Tail(text), old, new)

\* s.strip()
RECURSIVE str_strip(_)
str_strip(text) ==
    IF text = <<>> THEN text
    ELSE IF Head(text) = " " THEN str_strip(Tail(text))
    ELSE IF text[Len(text)] = " " THEN str_strip(SubSeq(text, 1, Len(text) - 1))
    ELSE text

DigitValue(c) == (CHOOSE d \in 1..10 : DigitChars[d] = c) - 1

RECURSIVE digits_value(_)
digits_value(text) ==
    IF text = <<>> THEN 0
    ELSE 10 * digits_value(SubSeq(text, 1, Len(text) - 1)) + DigitValue(text[Len(text)])

ParseError == [t |-> "raise", n |-> 0, s |-> <<"ValueError">>]

\* int(s) and float(s) on the texts the form builds: blanks around the digits are
\* ignored, anything but digits raises ValueError
py_number(text) ==
    LET body == str_strip(text)
    IN  IF body # <<>> /\ \A i \in DOMAIN body : body[i] \in Range(DigitChars)
        THEN Num(digits_value(body))
        ELSE ParseError

-----------------------------------------------------------------------------
(* The form's fields, in the order the script renders them                 *)

Field(name, list, kind, str_options, int_options, suffix) ==
    [name |-> name, list |-> list, kind |-> kind, str_options |-> str_options,
     int_options |-> int_options, suffix |-> suffix]

FormFields == <<
    Field("company", "categorical", "select", CATEGORICAL_OPTIONS_company, <<>>, <<>>),
    Field("model", "categorical", "select", COMMON_MODELS, <<>>, <<>>),
    Field("edition", "categorical", "select", COMMON_EDITIONS, <<>>, <<>>),
    Field("name", "categorical", "text", <<>>, <<>>, <<>>),
    Field("year", "numeric", "select_int", <<>>, YEAR_OPTIONS, <<>>),
    Field("km_driven", "numeric", "select_km", <<>>, KM_DRIVEN_OPTIONS, <<" ", "k", "m">>),
    Field("engine_cc", "numeric", "select_unit", <<>>, ENGINE_CC_OPTIONS, <<" ", "c", "c">>),
    Field("max_power_bhp", "numeric", "select_unit", <<>>, POWER_BHP_OPTIONS,
          <<" ", "b", "h", "p">>),
    Field("torque_nm", "numeric", "select_unit", <<>>, TORQUE_NM_OPTIONS, <<" ", "N", "m">>),
    Field("mileage_mpg", "numeric", "select_unit", <<>>, MILEAGE_MPG_OPTIONS,
          <<" ", "m", "p", "g">>),
    Field("seats", "numeric", "select_unit", <<>>, SEATS_OPTIONS,
          <<" ", "p", "l", "a", "c", "e", "s">>),
    Field("fuel", "categorical", "select", CATEGORICAL_OPTIONS_fuel, <<>>, <<>>),
    Field("transmission", "categorical", "select", CATEGORICAL_OPTIONS_transmission,
          <<>>, <<>>),
    Field("owner", "categorical", "select", CATEGORICAL_OPTIONS_owner, <<>>, <<>>),
    Field("seller_type", "categorical", "select", CATEGORICAL_OPTIONS_seller_type,
          <<>>, <<>>) >>

\* the generic selectbox of the loop at lines 218-225
FallbackField(col) == Field(col, "categorical", "fallback", <<"Autre">>, <<>>, <<>>)

\* the number of choices a widget offers besides its first one
choices(field) ==
    IF field.kind = "text" THEN Len(TextEntries) - 1
    ELSE IF field.kind \in {"select", "fallback"} THEN Len(field.str_options)
    ELSE Len(field.int_options)

\* what the widget returns for the choice idx (0: the first option, the placeholder)
widget_value(field, idx) ==
    IF field.kind = "text" THEN Str(TextEntries[idx + 1])
    ELSE IF idx = 0 THEN Str(Placeholder)
    ELSE IF field.kind \in {"select", "fallback"} THEN Str(<<field.str_options[idx]>>)
    ELSE IF field.kind = "select_int" THEN Num(field.int_options[idx])
    ELSE IF field.kind = "select_km"
         THEN Str(format_thousands(field.int_options[idx]) \o field.suffix)
    ELSE Str(str_int(field.int_options[idx]) \o field.suffix)

\* what the script stores in inputs[name] for the widget's value v
input_value(field, v) ==
    IF field.kind = "text" THEN v
    ELSE IF v = Str(Placeholder) THEN Null
    ELSE IF field.kind \in {"select", "select_int"} THEN v
    ELSE IF field.kind = "fallback" THEN (IF v = Str(<<"Autre">>) THEN Str(<<>>) ELSE v)
    ELSE IF field.kind = "select_km"
         THEN py_number(str_replace(str_replace(v.s, field.suffix, <<>>), <<",">>, <<>>))
    ELSE py_number(str_replace(v.s, field.suffix, <<>>))

\* whether the script renders the field: 'name' in categorical_cols / numeric_cols
rendered(field, numeric_cols, categorical_cols) ==
    IF field.list = "categorical" THEN field.name \in Range(categorical_cols)
    ELSE field.name \in Range(numeric_cols)

\* a loop that gives every declared feature without an input the generic one
fallback_cols_all_declared(numeric_cols, categorical_cols) ==
    numeric_cols \o categorical_cols

\* the columns the loop at line 218 goes through
fallback_cols(numeric_cols, categorical_cols) == categorical_cols

has_key(d, k) == \E i \in DOMAIN d : d[i].key = k

selection(sel, name) == IF name \in DOMAIN sel THEN sel[name] ELSE 0

\* lines 218-225 for the columns cols, inputs being the dict built so far
RECURSIVE fallback_inputs(_, _, _)
fallback_inputs(inputs, cols, sel) ==
    IF cols = <<>> THEN inputs
    ELSE LET col == Head(cols)
             field == FallbackField(col)
         IN  fallback_inputs(
                 IF has_key(inputs, col) THEN inputs
                 ELSE Append(inputs,
                             Item(col, input_value(field,
                                                   widget_value(field, selection(sel, col))))),
                 Tail(cols), sel)

\* lines 100-225: the dict inputs, in insertion order, for the widget state sel
form_inputs(numeric_cols, categorical_cols, sel) ==
    LET shown == SelectSeq(FormFields,
                           LAMBDA f : rendered(f, numeric_cols, categorical_cols))
        fixed == [i \in DOMAIN shown |->
                    Item(shown[i].name,
                         input_value(shown[i],
                                     widget_value(shown[i], selection(sel, shown[i].name))))]
    IN  fallback_inputs(fixed, fallback_cols(numeric_cols, categorical_cols), sel)

\* the widget of a rendered input
field_of(name, numeric_cols, categorical_cols) ==
    IF \E i \in DOMAIN FormFields :
          FormFields[i].name = name /\ rendered(FormFields[i], numeric_cols, categorical_cols)
    THEN FormFields[CHOOSE i \in DOMAIN FormFields : FormFields[i].name = name]
    ELSE FallbackField(name)

\* line 235 without the blank test: every input is posted as the widget returned it
payload_of_as_entered(inputs) ==
    [i \in DOMAIN inputs |-> Item(inputs[i].key, inputs[i].val)]

\* line 235
payload_of(inputs) ==
    [i \in DOMAIN inputs |->
        Item(inputs[i].key,
             IF inputs[i].val.t = "str" /\ str_strip(inputs[i].val.s) = <<>>
             THEN Null ELSE inputs[i].val)]

-----------------------------------------------------------------------------
(* The client form as a process: one run of the script per page load and   *)
(* per submission                                                          *)

NoOutcome == [kind |-> "none", code |-> 0, price |-> 0]

UiOff == [pc |-> "off", numeric_cols |-> <<>>, categorical_cols |-> <<>>,
          sel |-> [w \in {} |-> 0], inputs |-> <<>>, payload |-> <<>>,
          posts |-> 0, received |-> 0, outcome |-> NoOutcome]

\* lines 46-53: the metadata as the script reads it; a cut file makes json.loads raise
ui_metadata_raises == meta_file.state = "partial"

ui_numeric_cols ==
    IF meta_file.state = "complete" THEN meta_file.body.numeric_features ELSE <<>>

ui_categorical_cols ==
    IF meta_file.state = "complete" THEN meta_file.body.categorical_features ELSE <<>>

\* the widget state of a run: widgets seen before keep their choice, new ones start at 0
widget_state(inputs, sel) ==
    [w \in {inputs[i].key : i \in DOMAIN inputs} |-> selection(sel, w)]

\* the page is opened: the script runs without a submission
UiOpen ==
    /\ ui.pc \in {"off", "crashed"}
    /\ ui' = IF ui_metadata_raises
             THEN [UiOff EXCEPT !.pc = "crashed"]
             ELSE LET inputs == form_inputs(ui_numeric_cols, ui_categorical_cols, UiOff.sel)
                  IN  [UiOff EXCEPT !.pc = "form",
                                    !.numeric_cols = ui_numeric_cols,
                                    !.categorical_cols = ui_categorical_cols,
                                    !.sel = widget_state(inputs, UiOff.sel),
                                    !.inputs = inputs]
    /\ UNCHANGED <<models_dir, model_file, meta_file, train, req, stable, store_at_start>>

\* the user changes one widget of the form; the script does not run
UiSelect(name, idx) ==
    /\ ui.pc = "form"
    /\ name \in DOMAIN ui.sel
    /\ idx \in 0..MaxChoice
    /\ idx <= choices(field_of(name, ui.numeric_cols, ui.categorical_cols))
    /\ idx # ui.sel[name]
    /\ ui' = [ui EXCEPT !.sel[name] = idx]
    /\ UNCHANGED <<models_dir, model_file, meta_file, train, req, stable, store_at_start>>

\* the form is submitted: the script runs again, lines 46-235
UiSubmit ==
    /\ ui.pc = "form"
    /\ ui' = IF ui_metadata_raises
             THEN [UiOff EXCEPT !.pc = "crashed"]
             ELSE LET inputs == form_inputs(ui_numeric_cols, ui_categorical_cols, ui.sel)
                  IN  IF \E i \in DOMAIN inputs : inputs[i].val = ParseError
                      THEN [UiOff EXCEPT !.pc = "crashed"]
                      ELSE [ui EXCEPT !.pc = "posting",
                                      !.numeric_cols = ui_numeric_cols,
                                      !.categorical_cols = ui_categorical_cols,
                                      !.sel = widget_state(inputs, ui.sel),
                                      !.inputs = inputs,
                                      !.payload = payload_of(inputs),
                                      !.posts = 0,
                                      !.received = 0,
                                      !.outcome = NoOutcome]
    /\ UNCHANGED <<models_dir, model_file, meta_file, train, req, stable, store_at_start>>

\* line 242: the POST reaches the service
UiPost ==
    /\ ui.pc = "posting"
    /\ req.pc \in {"idle", "responded"}
    /\ req' = request_frame("predict", ui.payload)
    /\ stable' = TRUE
    /\ ui' = [ui EXCEPT !.pc = "waiting", !.posts = ui.posts + 1]
    /\ UNCHANGED <<models_dir, model_file, meta_file, train, store_at_start>>

\* lines 243-259 for a response that arrived
ui_outcome(resp) ==
    IF resp.code = 200
    THEN IF "price" \in DOMAIN resp.body
         THEN [kind |-> "price", code |-> 200, price |-> resp.body.price]
         ELSE \* formatting None raises inside the try
              [kind |-> "cannot_contact", code |-> 200, price |-> 0]
    ELSE [kind |-> "http_error", code |-> resp.code, price |-> 0]

\* the response arrives
UiReceive ==
    /\ ui.pc = "waiting"
    /\ req.pc = "responded"
    /\ ui' = [ui EXCEPT !.pc = "form", !.received = req.resp.code,
                        !.outcome = ui_outcome(req.resp)]
    /\ UNCHANGED <<models_dir, model_file, meta_file, train, req, stable, store_at_start>>

\* line 37: API_URL comes from the environment, so what answers the POST may be
\* another server than this service (a proxy in front of it, another backend)
OtherResponses ==
    {[code |-> 200, body |-> [status |-> "ok"]],
     [code |-> 502, body |-> [detail |-> <<"Bad Gateway">>]]}

\* line 242 answered by that server
UiReceiveOther(resp) ==
    /\ ui.pc = "posting"
    /\ ui' = [ui EXCEPT !.pc = "form", !.posts = ui.posts + 1, !.received = resp.code,
                        !.outcome = ui_outcome(resp)]
    /\ UNCHANGED <<models_dir, model_file, meta_file, train, req, stable, store_at_start>>

\* requests.post raises: no connection, or no response within the timeout
UiNoResponse ==
    /\ ui.pc \in {"posting", "waiting"}
    /\ ui' = [ui EXCEPT !.pc = "form",
                        !.posts = IF ui.pc = "posting" THEN ui.posts + 1 ELSE ui.posts,
                        !.outcome = [kind |-> "cannot_contact", code |-> 0, price |-> 0]]
    /\ UNCHANGED <<models_dir, model_file, meta_file, train, req, stable, store_at_start>>

-----------------------------------------------------------------------------
(* The system: the store starts empty, nothing trained, no request made    *)

Init ==
    /\ models_dir = FALSE
    /\ model_file = AbsentModel
    /\ meta_file = AbsentMeta
    /\ train = TrainIdle
    /\ req = ReqIdle
    /\ stable = TRUE
    /\ store_at_start = <<FALSE, AbsentModel, AbsentMeta>>
    /\ ui = UiOff

Next ==
    \/ \E csv \in CsvFiles, target \in Targets : TrainStart(csv, target)
    \/ TrainReadCsv
    \/ TrainFit
    \/ TrainMkdir
    \/ TrainOpenModel
    \/ TrainCloseModel
    \/ TrainOpenMeta
    \/ TrainCloseMeta
    \/ \E features \in RequestBodies : ReqStart("predict", features)
    \/ ReqStart("health", <<>>)
    \/ LoadExists
    \/ LoadModel
    \/ LoadMeta
    \/ HealthRespond
    \/ PredictRespond

Spec == Init /\ [][Next]_vars

-----------------------------------------------------------------------------
(* The client form in front of a service whose store a training run has    *)
(* filled, is filling, or has not touched                                  *)

CsvUnanticipated == [exists |-> TRUE, columns |->
    <<Column("doors", "int64"), Column("color", "object"), Column("km_driven", "int64"),
      Column("name", "object"), Column("price", "float64")>>]

CsvCoded == [exists |-> TRUE, columns |->
    <<Column("fuel", "int64"), Column("engine_cc", "float64"), Column("price", "float64")>>]

UiCsvFiles == {CsvCars, CsvYearText, CsvUnanticipated, CsvCoded}

\* the store after the first training run, on csv with the default target
trained_store(csv) ==
    LET types == detect_feature_types(csv, "price")
    IN  <<TRUE,
          [state |-> "complete",
           body |-> build_pipeline(1, types.numeric_cols, types.categorical_cols)],
          [state |-> "complete", body |-> metadata_of(1, "price", types)]>>

UiStores ==
    {<<FALSE, AbsentModel, AbsentMeta>>}
    \cup {trained_store(csv) : csv \in UiCsvFiles}
    \cup {<<TRUE, trained_store(CsvCars)[2], PartialMeta>>}

InitUI ==
    /\ \E st \in UiStores :
          /\ models_dir = st[1]
          /\ model_file = st[2]
          /\ meta_file = st[3]
    /\ train = TrainIdle
    /\ req = ReqIdle
    /\ stable = TRUE
    /\ store_at_start = <<FALSE, AbsentModel, AbsentMeta>>
    /\ ui = UiOff

NextUI ==
    \/ UiOpen
    \/ \E name \in DOMAIN ui.sel, idx \in 0..MaxChoice : UiSelect(name, idx)
    \/ UiSubmit
    \/ UiPost
    \/ UiNoResponse
    \/ UiReceive
    \/ \E resp \in OtherResponses : UiReceiveOther(resp)
    \/ LoadExists
    \/ LoadModel
    \/ LoadMeta
    \/ PredictRespond

SpecUI == InitUI /\ [][NextUI]_vars

-----------------------------------------------------------------------------
(* Vocabulary of the properties                                            *)

\* the request as a mapping, without its key order
AsMap(features) ==
    [k \in {features[i].key : i \in DOMAIN features} |->
        (CHOOSE it \in Range(features) : it.key = k).val]

\* the row the service is to hand to the pipeline for a mapping m
AlignedRow(meta, m) ==
    LET cols == meta.numeric_features \o meta.categorical_features
    IN  [i \in DOMAIN cols |->
            [col |-> cols[i], val |-> IF cols[i] \in DOMAIN m THEN m[cols[i]] ELSE Null]]

Responded(endpoint) == req.pc = "responded" /\ req.endpoint = endpoint

\* load_artifacts returned to the handler
Loaded == req.model # NoPipeline /\ req.meta # NoMeta

StoreComplete == model_file.state = "complete" /\ meta_file.state = "complete"

LoadFailureMessages == {NotFoundMessage, <<"Ran out of input">>, <<"Expecting value">>}

\* C1: a /predict response is 500 with the cause exactly when loading failed, 400 with
\* a message starting "Prediction failed: " exactly when loading succeeded and the
\* pipeline's predict raised, and otherwise 200 with a numeric price; while the store is
\* not written during the request, loading fails exactly when a file is absent or cut.
C1_PredictOutcome ==
    Responded("predict") =>
        LET code == req.resp.code
            body == req.resp.body
            pred == pipeline_predict(req.model, req.X)
        IN  /\ code \in {200, 400, 500}
            /\ (code = 500) <=> ~Loaded
            /\ (code = 400) <=> (Loaded /\ pred.raised)
            /\ (code = 200) <=> (Loaded /\ ~pred.raised)
            /\ code = 500 => DOMAIN body = {"detail"} /\ body.detail \in LoadFailureMessages
            /\ code = 400 => /\ DOMAIN body = {"detail"}
                             /\ Head(body.detail) = "Prediction failed: "
                             /\ Tail(body.detail) = <<pred.cause>>
            /\ code = 200 => DOMAIN body = {"price"} /\ body.price \in Nat
            /\ stable => (Loaded <=> StoreComplete)

C1_Witness ==
    /\ Responded("predict")
    /\ req.resp.code = 400
    /\ Loaded
    /\ stable

\* C2: /health always answers normally (status code 200, a status in the body), and the
\* status is "ok" exactly when load_artifacts returned; while the store is not written
\* during the request, that is exactly when both files exist and are whole.
C2_HealthStatus ==
    Responded("health") =>
        /\ req.resp.code = 200
        /\ "status" \in DOMAIN req.resp.body
        /\ req.resp.body.status \in {"ok", "error"}
        /\ (req.resp.body.status = "ok") <=> Loaded
        /\ stable => ((req.resp.body.status = "ok") <=> StoreComplete)

C2_Witness ==
    /\ Responded("health")
    /\ stable
    /\ model_file.state = "complete"
    /\ meta_file.state = "partial"
    /\ req.resp.body.status = "error"

\* C3: every /health response, ok or error, carries model = "rf" and a features list,
\* which on success is the metadata's numeric names followed by its categorical names.
C3_HealthShape ==
    Responded("health") =>
        /\ {"status", "model", "features"} \subseteq DOMAIN req.resp.body
        /\ req.resp.body.model = "rf"
        /\ req.resp.body.status = "ok" =>
              req.resp.body.features =
                  req.meta.numeric_features \o req.meta.categorical_features

\* C4: the row handed to the pipeline has the metadata's numeric then categorical
\* features as its columns, each holding the request's value for that name or null when
\* the request has no such key, so it is a function of the request as a mapping; and the
\* price returned is the pipeline's prediction for that row.
C4_RowAligned ==
    (Responded("predict") /\ Loaded) =>
        LET row == AlignedRow(req.meta, AsMap(req.features))
        IN  /\ req.X = row
            /\ req.resp.code = 200 =>
                  req.resp.body.price = pipeline_predict(req.model, row).value

\* a request whose two keys come in the opposite order of the row's columns, with
\* different values
C4_Witness ==
    /\ Responded("predict")
    /\ Loaded
    /\ req.resp.code = 200
    /\ Len(req.features) = 2
    /\ Len(req.X) = 2
    /\ req.features[1].key = req.X[2].col
    /\ req.features[2].key = req.X[1].col
    /\ req.features[1].val # req.features[2].val

AllDeclaredNull(meta, features) ==
    \A i \in DOMAIN AlignedRow(meta, AsMap(features)) :
        AlignedRow(meta, AsMap(features))[i].val = Null

\* the store holds the two files of one training run
StoreOfOneRun == StoreComplete /\ model_file.body.run = meta_file.body.run

\* C5: with the artifacts of one successful training run in the store, a /predict
\* request whose every declared feature is null or absent is answered 200 with a
\* numeric price.
C5_AllNullPredicts ==
    (Responded("predict") /\ stable /\ StoreOfOneRun
        /\ AllDeclaredNull(meta_file.body, req.features)) =>
        /\ req.resp.code = 200
        /\ DOMAIN req.resp.body = {"price"}
        /\ req.resp.body.price \in Nat

C5_Witness ==
    /\ Responded("predict")
    /\ stable
    /\ StoreOfOneRun
    /\ meta_file.body.numeric_features # <<>>
    /\ meta_file.body.categorical_features # <<>>
    /\ AllDeclaredNull(meta_file.body, req.features)
    /\ \E i \in DOMAIN req.features :
          req.features[i].key = "year" /\ req.features[i].val = Null

FeatureColumns(csv, target) == Range(column_names(csv)) \ {target}

\* C6: when training completes, the metadata's numeric and categorical features
\* partition the CSV's columns other than the target.
C6_Partition ==
    train.pc = "done" =>
        /\ Range(meta_file.body.numeric_features)
              \cup Range(meta_file.body.categorical_features)
           = FeatureColumns(train.csv, train.target)
        /\ Range(meta_file.body.numeric_features)
              \cap Range(meta_file.body.categorical_features) = {}

\* C7: a run given a CSV path that does not exist, or a target column the CSV lacks,
\* fails at once with a descriptive error and a non-zero exit, and the artifact store
\* (directory and both files) is as it was when the run began.
C7_FailsBeforeWriting ==
    (train.pc \notin {"idle", "start"}
        /\ (~train.csv.exists \/ ~has_column(train.csv, train.target))) =>
        /\ train.pc = "failed"
        /\ train.exit_code # 0
        /\ \/ /\ ~train.csv.exists
              /\ train.error.kind = "FileNotFoundError"
              /\ Head(train.error.msg) = "CSV not found: "
           \/ /\ train.csv.exists
              /\ train.error.kind = "ValueError"
              /\ Head(train.error.msg) = "Target column "
              /\ train.error.msg[2] = train.target
        /\ store = store_at_start

\* a second run fails on a missing target while the first run's artifacts are in place
C7_Witness ==
    /\ train.pc = "failed"
    /\ train.csv.exists
    /\ ~has_column(train.csv, train.target)
    /\ train.run = 2
    /\ StoreComplete

\* C8: a request during which the store is not written is answered from the files the
\* store holds: the loaded pipeline and metadata are the store's, /health lists the
\* stored metadata's features and a price is the stored pipeline's prediction.
C8_NoCaching ==
    (req.pc \in {"loaded", "responded"} /\ stable /\ StoreComplete) =>
        /\ req.model = model_file.body
        /\ req.meta = meta_file.body
        /\ Responded("health") =>
              req.resp.body = [status |-> "ok", model |-> "rf",
                               features |-> meta_file.body.numeric_features
                                            \o meta_file.body.categorical_features]
        /\ (Responded("predict") /\ req.resp.code = 200) =>
              req.resp.body.price =
                  pipeline_predict(model_file.body,
                                   AlignedRow(meta_file.body, AsMap(req.features))).value

\* a request answered from the second run's artifacts
C8_Witness ==
    /\ Responded("predict")
    /\ stable
    /\ StoreOfOneRun
    /\ model_file.body.run = 2
    /\ req.resp.code = 200

\* the response to a request as a function of the request and the store alone
ExpectedResponse(endpoint, features) ==
    IF model_file.state = "absent" \/ meta_file.state = "absent"
    THEN IF endpoint = "health"
         THEN [code |-> 200, body |-> [status |-> "error", detail |-> NotFoundMessage]]
         ELSE [code |-> 500, body |-> [detail |-> NotFoundMessage]]
    ELSE IF model_file.state = "partial"
    THEN IF endpoint = "health"
         THEN [code |-> 200, body |-> [status |-> "error", detail |-> <<"Ran out of input">>]]
         ELSE [code |-> 500, body |-> [detail |-> <<"Ran out of input">>]]
    ELSE IF meta_file.state = "partial"
    THEN IF endpoint = "health"
         THEN [code |-> 200, body |-> [status |-> "error", detail |-> <<"Expecting value">>]]
         ELSE [code |-> 500, body |-> [detail |-> <<"Expecting value">>]]
    ELSE IF endpoint = "health"
    THEN [code |-> 200,
          body |-> [status |-> "ok", model |-> "rf",
                    features |-> meta_file.body.numeric_features
                                 \o meta_file.body.categorical_features]]
    ELSE LET pred == pipeline_predict(model_file.body,
                                      AlignedRow(meta_file.body, AsMap(features)))
         IN  IF pred.raised
             THEN [code |-> 400, body |-> [detail |-> <<"Prediction failed: ", pred.cause>>]]
             ELSE [code |-> 200, body |-> [price |-> pred.value]]

C9_SameAnswer ==
    (req.pc = "responded" /\ stable) =>
        req.resp = ExpectedResponse(req.endpoint, req.features)

C9_ReadOnly ==
    req' # req => UNCHANGED <<models_dir, model_file, meta_file>>

\* C9: no step of a request changes the directory or either file, and a response given
\* while the store is not written is a function of the request and the store alone, so
\* it is the same whatever requests came before.
C9_Stateless == []C9_SameAnswer /\ [][C9_ReadOnly]_vars

\* a request answered 400 once earlier requests have been served
C9_Witness ==
    /\ Responded("predict")
    /\ stable
    /\ StoreOfOneRun
    /\ req.resp.code = 400

AnticipatedNumeric ==
    {"year", "km_driven", "engine_cc", "max_power_bhp", "torque_nm", "mileage_mpg", "seats"}

PayloadKeys == {ui.payload[i].key : i \in DOMAIN ui.payload}

Declared == Range(ui.numeric_cols) \cup Range(ui.categorical_cols)

\* C10 as stated: the posted feature request has a key for every declared feature,
\* numeric or categorical.
C10_EveryFeatureHasKey ==
    ui.pc = "posting" => Declared \subseteq PayloadKeys

\* C10: the posted feature request has exactly one key per declared categorical
\* feature and per declared numeric feature that is one of the seven anticipated
\* numeric fields; a declared numeric feature outside those seven has no input and no
\* key.  The widgets of the form are those keys.
C10_KeysOfPayload ==
    ui.pc = "posting" =>
        /\ PayloadKeys = Range(ui.categorical_cols)
                         \cup (Range(ui.numeric_cols) \cap AnticipatedNumeric)
        /\ \A i, j \in DOMAIN ui.payload :
              ui.payload[i].key = ui.payload[j].key => i = j
        /\ DOMAIN ui.sel = PayloadKeys

\* a submission for metadata declaring a numeric and a categorical feature that the
\* form does not anticipate
C10_Witness ==
    /\ ui.pc = "posting"
    /\ "doors" \in Range(ui.numeric_cols)
    /\ "color" \in Range(ui.categorical_cols)
    /\ "color" \in PayloadKeys
    /\ "doors" \notin PayloadKeys

-----------------------------------------------------------------------------
(* C11: what the posted feature request may contain                        *)

\* the unit suffixes the form appends to the options it displays
DisplaySuffixes ==
    {FormFields[i].suffix : i \in {j \in DOMAIN FormFields : FormFields[j].suffix # <<>>}}

EndsWith(text, suffix) ==
    /\ Len(text) >= Len(suffix)
    /\ SubSeq(text, Len(text) - Len(suffix) + 1, Len(text)) = suffix

\* what the request must hold for a widget left at choice idx
Denoted(field, idx) ==
    IF field.kind = "text"
    THEN IF str_strip(TextEntries[idx + 1]) = <<>> THEN Null ELSE Str(TextEntries[idx + 1])
    ELSE IF idx = 0 \/ field.kind = "fallback" THEN Null
    ELSE IF field.kind = "select" THEN Str(<<field.str_options[idx]>>)
    ELSE Num(field.int_options[idx])

\* C11: whatever the widgets hold at submission, no value of the posted feature
\* request is the placeholder, an empty or whitespace-only string, or a string ending
\* with a unit suffix of the form; a widget left unselected or blank is posted as
\* null, and a selected numeric option as the number it denotes.
C11_PayloadClean ==
    ui.pc = "posting" =>
        \A i \in DOMAIN ui.payload :
            LET item == ui.payload[i]
                field == field_of(item.key, ui.numeric_cols, ui.categorical_cols)
            IN  /\ item.val.t \in {"null", "num", "str"}
                /\ item.val.t = "str" =>
                      /\ item.val.s # Placeholder
                      /\ str_strip(item.val.s) # <<>>
                      /\ \A suffix \in DisplaySuffixes : ~EndsWith(item.val.s, suffix)
                /\ item.val = Denoted(field, ui.sel[item.key])

\* a submission with a selected mileage, a name of blanks only and an untouched
\* generic selectbox
C11_Witness ==
    /\ ui.pc = "posting"
    /\ "km_driven" \in DOMAIN ui.sel /\ ui.sel["km_driven"] = 2
    /\ "name" \in DOMAIN ui.sel /\ ui.sel["name"] = 2
    /\ "color" \in DOMAIN ui.sel /\ ui.sel["color"] = 0
    /\ \E i \in DOMAIN ui.payload : ui.payload[i] = Item("km_driven", Num(5000))
    /\ \E i \in DOMAIN ui.payload : ui.payload[i] = Item("name", Null)
    /\ \E i \in DOMAIN ui.payload : ui.payload[i] = Item("color", Null)

-----------------------------------------------------------------------------
(* C12: one POST and one reported outcome per submission                   *)

\* a submission has been handled and its outcome is on the page
Reported == ui.pc = "form" /\ ui.outcome.kind # "none"

\* C12: each submission makes exactly one POST and reports one outcome: the price
\* when a response with status 200 was received, the HTTP-status error when a
\* response with another status was received, and the 'cannot contact the API'
\* message only when no response was received.
C12_OutcomeMatchesResponse ==
    Reported =>
        /\ ui.posts = 1
        /\ ui.outcome.kind \in {"price", "http_error", "cannot_contact"}
        /\ ui.outcome.kind = "price" <=> ui.received = 200
        /\ ui.outcome.kind = "http_error" <=> ui.received \notin {0, 200}
        /\ ui.outcome.kind = "cannot_contact" <=> ui.received = 0

-----------------------------------------------------------------------------
(* C13: a request served while a training run rewrites the artifacts       *)

\* C13: every /predict request that got past artifact loading holds a pipeline and a
\* metadata document written by the same training run, so the feature lists it builds
\* the row from are the columns the pipeline was fit on.
C13_SameRun ==
    (req.endpoint = "predict" /\ req.pc \in {"loaded", "responded"} /\ Loaded) =>
        /\ req.model.run = req.meta.run
        /\ req.meta.numeric_features = req.model.numeric_cols
        /\ req.meta.categorical_features = req.model.categorical_cols

====
